---- MODULE Spec2Model ----
(***************************************************************************)
(* Resumable batch analysis of src/analyze_ai_responses.py: the generator   *)
(* call with retries (analyze_single_response), the output recovery chain   *)
(* (extract_and_parse_json), the progress file (save_progress,              *)
(* load_progress, clear_progress, check_unfinished_task), the batch loop    *)
(* (analyze_csv_data), the re-analysis of failed items                      *)
(* (find_failed_analyses, reanalyze_failed_items) and main's menu.          *)
(*                                                                          *)
(* Strings of the program are modelled as tuples: << >> is the empty        *)
(* string, <<"Q", i>> the question of row i, and so on.  A parsed JSON      *)
(* value is a record giving its Python type and what the code reads of it.  *)
(***************************************************************************)
EXTENDS Integers, Sequences, FiniteSets, TLC

\* Largest number of rows of the CSV source.
MaxRecords == 2

\* analyze_single_response(max_retries: int = 3)
max_retries == 3

\* The literal status of a failed analysis: '⚠️ 分析失败'.
SENTINEL == "ANALYSIS_FAILED"

\* required_fields of analyze_single_response.
required_fields == {"Platform", "User_Query", "AI_Response", "Security_Status"}

EmptyStr == << >>

(***************************************************************************)
(* Source rows.  csv.DictReader yields one mapping per line; the code reads *)
(* the columns 问题 (question), 回答 (answer), AI平台 (platform) and 序号 (seq).   *)
(***************************************************************************)
RowKinds == {"full", "noq", "nor"}

Row(i, k) ==
    [seq      |-> i,
     question |-> IF k = "noq" THEN EmptyStr ELSE <<"Q", i>>,
     answer   |-> IF k = "nor" THEN EmptyStr ELSE <<"A", i>>,
     platform |-> <<"P", i>>]

RowsOf(kinds) == [i \in 1..Len(kinds) |-> Row(i, kinds[i])]

KindSeqs == UNION {[1..n -> RowKinds] : n \in 1..MaxRecords}

Sources == {RowsOf(ks) : ks \in KindSeqs}

(***************************************************************************)
(* JSON values as the code sees them.  type is the Python type of the       *)
(* value; has is what `field in result` answers for the required fields     *)
(* (keys of a dict, items of a list, substrings of a str); the other        *)
(* fields are what result.get / item assignment read and write.             *)
(***************************************************************************)
Value(type, has, p, q, a, status) ==
    [type |-> type, has |-> has, Platform |-> p, User_Query |-> q,
     AI_Response |-> a, Security_Status |-> status,
     Risk_Diagnosis |-> <<"generated">>, seq |-> 0]

OkValue(pr)       == Value("dict", required_fields, pr.platform, pr.question, pr.answer, "SAFE")
MisechoValue(pr)  == Value("dict", required_fields, <<"P", 0>>, <<"Q", 0>>, <<"A", 0>>, "SAFE")
SentinelValue(pr) == Value("dict", required_fields, <<"P", 0>>, <<"Q", 0>>, <<"A", 0>>, SENTINEL)
EmptyValue(pr)    == Value("dict", required_fields, pr.platform, pr.question, pr.answer, "")
MissingValue(pr)  == Value("dict", required_fields \ {"Security_Status"}, pr.platform, pr.question, pr.answer, "ABSENT")
ListValue         == Value("list", {}, EmptyStr, EmptyStr, EmptyStr, "ABSENT")
ListAllValue      == Value("list", required_fields, EmptyStr, EmptyStr, EmptyStr, "ABSENT")
StrAllValue       == Value("str", required_fields, EmptyStr, EmptyStr, EmptyStr, "ABSENT")
NumValue          == Value("int", {}, EmptyStr, EmptyStr, EmptyStr, "ABSENT")

(***************************************************************************)
(* Generator outcomes.  raises: client.chat.completions.create (or the      *)
(* read of its content) raised.  Otherwise the text is described by what    *)
(* each candidate substring of extract_and_parse_json parses to: << >> when *)
(* json.loads raises, <<v>> when it returns v.                              *)
(*   full        json.loads(text)                                           *)
(*   tagged      "```json" in text;  taggedBody its interior                *)
(*   fenced      "```" in text;      fencedBody text.split("```")[1]...     *)
(*   braces      find('{') != -1 and rfind('}') != -1;  braceBody the slice *)
(*   rep*        json.loads(repair_json(candidate)) of the same candidates  *)
(***************************************************************************)
NoParse == << >>

Text(full, tagged, tb, fenced, fb, braces, bb, rf, rt, rfe, rb) ==
    [raises |-> FALSE, full |-> full,
     tagged |-> tagged, taggedBody |-> tb,
     fenced |-> fenced, fencedBody |-> fb,
     braces |-> braces, braceBody |-> bb,
     repFull |-> rf, repTagged |-> rt, repFenced |-> rfe, repBrace |-> rb]

Raises == [Text(NoParse, FALSE, NoParse, FALSE, NoParse, FALSE, NoParse,
                NoParse, NoParse, NoParse, NoParse) EXCEPT !.raises = TRUE]

\* The whole text is one JSON document.
Clean(v) == Text(<<v>>, FALSE, NoParse, FALSE, NoParse, v.type = "dict",
                 IF v.type = "dict" THEN <<v>> ELSE NoParse, <<v>>, NoParse, NoParse,
                 IF v.type = "dict" THEN <<v>> ELSE NoParse)

OutcomeNames ==
    {"raise", "ok", "misecho", "sentinel", "empty", "missing", "list", "list_all",
     "str_all", "num", "tagged", "fenced", "noise", "truncated", "garbage"}

GenOutcome(name, pr) ==
    CASE name = "raise"     -> Raises
      [] name = "ok"        -> Clean(OkValue(pr))
      [] name = "misecho"   -> Clean(MisechoValue(pr))
      [] name = "sentinel"  -> Clean(SentinelValue(pr))
      [] name = "empty"     -> Clean(EmptyValue(pr))
      [] name = "missing"   -> Clean(MissingValue(pr))
      [] name = "list"      -> Clean(ListValue)
      [] name = "list_all"  -> Clean(ListAllValue)
      [] name = "str_all"   -> Clean(StrAllValue)
      [] name = "num"       -> Clean(NumValue)
         \* prose, then ```json {..} ```: the untagged split yields "json\n{..}"
      [] name = "tagged"    -> Text(NoParse, TRUE, <<OkValue(pr)>>, TRUE, NoParse, TRUE,
                                    <<OkValue(pr)>>, <<OkValue(pr)>>, <<OkValue(pr)>>,
                                    <<OkValue(pr)>>, <<OkValue(pr)>>)
         \* prose, then ``` {..} ```
      [] name = "fenced"    -> Text(NoParse, FALSE, NoParse, TRUE, <<OkValue(pr)>>, TRUE,
                                    <<OkValue(pr)>>, <<OkValue(pr)>>, NoParse,
                                    <<OkValue(pr)>>, <<OkValue(pr)>>)
         \* noise {..} noise
      [] name = "noise"     -> Text(NoParse, FALSE, NoParse, FALSE, NoParse, TRUE,
                                    <<OkValue(pr)>>, <<OkValue(pr)>>, NoParse, NoParse,
                                    <<OkValue(pr)>>)
         \* an object cut before its closing brace: only the repair yields a value
      [] name = "truncated" -> Text(NoParse, FALSE, NoParse, FALSE, NoParse, FALSE,
                                    NoParse, <<MissingValue(pr)>>, NoParse, NoParse, NoParse)
         \* nothing parses, repaired or not
      [] name = "garbage"   -> Text(NoParse, FALSE, NoParse, FALSE, NoParse, FALSE,
                                    NoParse, NoParse, NoParse, NoParse, NoParse)

(***************************************************************************)
(* extract_and_parse_json: <<v>> for a returned value, << >> for            *)
(* ValueError("无法提取或修复JSON").                                              *)
(***************************************************************************)
\* Faulty variant: the whole text is not among the candidates of the repair
json_candidates_without_text(t) ==
    (IF t.tagged THEN <<t.repTagged>> ELSE << >>)
    \o (IF t.fenced THEN <<t.repFenced>> ELSE << >>)
    \o (IF t.braces THEN <<t.repBrace>> ELSE << >>)

\* Faulty variant: the brace slice is repaired first
json_candidates_braces_first(t) ==
    (IF t.braces THEN <<t.repBrace>> ELSE << >>)
    \o <<t.repFull>>
    \o (IF t.tagged THEN <<t.repTagged>> ELSE << >>)
    \o (IF t.fenced THEN <<t.repFenced>> ELSE << >>)

json_candidates(t) ==
    <<t.repFull>>
    \o (IF t.tagged THEN <<t.repTagged>> ELSE << >>)
    \o (IF t.fenced THEN <<t.repFenced>> ELSE << >>)
    \o (IF t.braces THEN <<t.repBrace>> ELSE << >>)

FirstParsed(cands) ==
    IF \E k \in 1..Len(cands) : cands[k] # NoParse
    THEN cands[CHOOSE k \in 1..Len(cands) :
                  /\ cands[k] # NoParse
                  /\ \A j \in 1..(k - 1) : cands[j] = NoParse]
    ELSE NoParse

extract_and_parse_json(t) ==
    IF t.full # NoParse THEN t.full
    ELSE IF t.tagged /\ t.taggedBody # NoParse THEN t.taggedBody
    ELSE IF t.fenced /\ t.fencedBody # NoParse THEN t.fencedBody
    ELSE IF t.braces /\ t.braceBody # NoParse THEN t.braceBody
    ELSE FirstParsed(json_candidates(t))

(***************************************************************************)
(* One iteration of the retry loop of analyze_single_response.              *)
(*   [ok |-> TRUE, value |-> v]      the iteration returns v                *)
(*   [ok |-> FALSE, error |-> msg]   the iteration raised, str(e) = msg     *)
(***************************************************************************)
Accepted(v) == [ok |-> TRUE, value |-> v, error |-> ""]
Failed(msg) == [ok |-> FALSE, value |-> NumValue, error |-> msg]

\* all(field in result for field in required_fields)
HasRequiredFields(v) == \A f \in required_fields : f \in v.has

TryOnce(o) ==
    IF o.raises THEN Failed("api_error")
    ELSE LET parsed == extract_and_parse_json(o)
         IN IF parsed = NoParse THEN Failed("cannot_extract_json")
            ELSE IF parsed[1].type = "int" THEN Failed("type_error")
            ELSE IF HasRequiredFields(parsed[1]) THEN Accepted(parsed[1])
            ELSE Failed("missing_fields")

\* Faulty variant: the placeholder embeds the answer in place of the question
FailureResultSwapped(pr, n, msg) ==
    [type |-> "dict", has |-> required_fields,
     Platform |-> pr.platform, User_Query |-> pr.answer,
     AI_Response |-> pr.question, Security_Status |-> SENTINEL,
     Risk_Diagnosis |-> <<"parse_error", n, msg>>, seq |-> 0]

\* The mapping returned once the last attempt has failed.
FailureResult(pr, n, msg) ==
    [type |-> "dict", has |-> required_fields,
     Platform |-> pr.platform, User_Query |-> pr.question,
     AI_Response |-> pr.answer, Security_Status |-> SENTINEL,
     Risk_Diagnosis |-> <<"parse_error", n, msg>>, seq |-> 0]

(***************************************************************************)
(* Files.  PROGRESS_FILE is absent, holds a complete JSON document, or is   *)
(* "truncated": open(PROGRESS_FILE, 'w') has emptied it and json.dump has   *)
(* not finished.  The result file of the run is absent or complete.         *)
(***************************************************************************)
NoFile == [st |-> "absent", total |-> 0, processed |-> 0,
           results |-> << >>, rows_data |-> << >>]

TruncatedFile == [NoFile EXCEPT !.st = "truncated"]

\* progress_data of save_progress (the timestamps are left out).
ProgressData(total_, processed_, results_, rows_) ==
    [st |-> "json", total |-> total_, processed |-> processed_,
     results |-> results_, rows_data |-> rows_]

ResultsData(results_) == [NoFile EXCEPT !.st = "json", !.results = results_]

\* load_progress: << >> is None.
load_progress(file) == IF file.st = "json" THEN <<file>> ELSE << >>

\* Faulty variant: every entry is taken for a failed one
find_failed_analyses_all(rs) == 1..Len(rs)

\* find_failed_analyses: the indices (from 1) whose status is the sentinel.
find_failed_analyses(rs) ==
    {i \in 1..Len(rs) : rs[i].Security_Status = SENTINEL}

\* The sorted sequence of a set of indices (enumerate keeps the list order).
RECURSIVE SortedSeq(_)
SortedSeq(S) ==
    IF S = {} THEN << >>
    ELSE LET m == CHOOSE x \in S : \A y \in S : x <= y
         IN <<m>> \o SortedSeq(S \ {m})

\* critical_issues with no item: {"高危": [], "预警": []}.
NoIssues == [high |-> << >>, warn |-> << >>]

VARIABLES
    csv,            \* the rows of the CSV source
    csv_exists,     \* os.path.exists(csv_file)
    gen,            \* the generator: << >> answers freely, else a stub per row
    progress_file,  \* PROGRESS_FILE on disk
    result_file,    \* the result file of the run on disk
    triaged,        \* history: a re-analysis pass has rewritten the result file
    pc,             \* where the process is; "idle" when none is running
    exc,            \* the exception that ended the process, "" if none
    unfinished,     \* unfinished_progress of main: << >> is None
    mode,           \* "fresh", "resume" or "triage"
    rows,           \* rows of analyze_csv_data
    results,        \* results of analyze_csv_data / reanalyze_failed_items
    idx,            \* idx of the batch loop (from 0)
    failed_indices, \* failed_indices of main (indices from 1)
    fpos,           \* position in failed_indices (from 1)
    attempt,        \* attempt of analyze_single_response (from 0)
    error_msg,      \* error_msg: str(e) of the last failed attempt
    ret,            \* value returned by analyze_single_response: << >> or <<v>>
    exhausted,      \* ret was built after the last attempt failed
    calls,          \* history: generator calls of the process, where counted
    retries,        \* the argument max_retries of analyze_single_response
    critical_issues,\* extract_platforms run alone: its argument
    platform,       \* ... the string returned: << >> or <<the labels joined>>
    text,           \* extract_and_parse_json run alone: its argument
    stage,          \* ... the block of the function that runs next
    cand,           \* ... position in json_candidates (from 1)
    tried,          \* ... history: the strategies attempted so far
    parsed,         \* ... the value returned: << >> or <<v>>
    signalled       \* ... history: a KeyboardInterrupt was raised

vars == <<csv, csv_exists, gen, progress_file, result_file, triaged, pc, exc, unfinished,
          mode, rows, results, idx, failed_indices, fpos, attempt, error_msg,
          ret, exhausted, calls, retries, critical_issues, platform, text, stage,
          cand, tried, parsed, signalled>>

\* The variables of the batch program, and those of the recovery run alone.
program == <<csv, csv_exists, gen, progress_file, result_file, triaged, pc, exc,
             unfinished, mode, rows, results, idx, failed_indices, fpos, attempt,
             error_msg, ret, exhausted, calls, retries>>

recovery == <<text, stage, cand, tried, parsed, signalled>>

\* The variables of extract_platforms run alone.
synthesis == <<critical_issues, platform>>

disk == <<csv, csv_exists, gen, progress_file, result_file, triaged>>

frame == <<attempt, error_msg, ret, exhausted>>

\* A process that is not running holds nothing in memory.
NoMemory ==
    /\ unfinished' = << >>
    /\ mode' = "fresh"
    /\ rows' = << >>
    /\ results' = << >>
    /\ idx' = 0
    /\ failed_indices' = << >>
    /\ fpos' = 0
    /\ attempt' = 0
    /\ error_msg' = ""
    /\ ret' = << >>
    /\ exhausted' = FALSE

\* Stub generators: per row, the answer to each attempt.
DetScripts ==
    {<<"ok", "ok", "ok">>, <<"raise", "raise", "raise">>,
     <<"raise", "garbage", "noise">>, <<"garbage", "missing", "raise">>,
     <<"misecho", "ok", "ok">>}

InitWith(stubbed) ==
    /\ csv \in Sources
    /\ csv_exists = TRUE
    /\ gen \in (IF stubbed THEN [1..Len(csv) -> DetScripts] ELSE {<< >>})
    /\ progress_file = NoFile
    /\ result_file = NoFile
    /\ triaged = FALSE
    /\ pc = "idle"
    /\ exc = ""
    /\ unfinished = << >>
    /\ mode = "fresh"
    /\ rows = << >>
    /\ results = << >>
    /\ idx = 0
    /\ failed_indices = << >>
    /\ fpos = 0
    /\ attempt = 0
    /\ error_msg = ""
    /\ ret = << >>
    /\ exhausted = FALSE
    /\ calls = 0
    /\ retries = max_retries
    /\ critical_issues = NoIssues
    /\ platform = << >>
    /\ text = << >>
    /\ stage = "off"
    /\ cand = 0
    /\ tried = << >>
    /\ parsed = << >>
    /\ signalled = FALSE

Init == InitWith(FALSE)

InitDet == InitWith(TRUE)

(***************************************************************************)
(* main, up to the menu: check_unfinished_task.                             *)
(***************************************************************************)
\* Faulty variant: the existence of the source is not looked at
check_unfinished_task_stale(file, exists) ==
    LET progress == load_progress(file)
    IN IF progress = << >> THEN [unfinished |-> << >>, file |-> file]
       ELSE IF progress[1].processed >= progress[1].total
            THEN [unfinished |-> << >>, file |-> NoFile]
       ELSE [unfinished |-> progress, file |-> file]

check_unfinished_task(file, exists) ==
    LET progress == load_progress(file)
    IN IF progress = << >> THEN [unfinished |-> << >>, file |-> file]
       ELSE IF ~exists THEN [unfinished |-> << >>, file |-> NoFile]
       ELSE IF progress[1].processed >= progress[1].total
            THEN [unfinished |-> << >>, file |-> NoFile]
       ELSE [unfinished |-> progress, file |-> file]

Start ==
    /\ UNCHANGED <<recovery, synthesis, retries>>
    /\ calls' = 0
    /\ pc = "idle"
    /\ LET c == check_unfinished_task(progress_file, csv_exists)
       IN /\ unfinished' = c.unfinished
          /\ progress_file' = c.file
    /\ pc' = "menu"
    /\ exc' = ""
    /\ UNCHANGED <<csv, csv_exists, gen, result_file, triaged, mode, rows, results, idx,
                   failed_indices, fpos, frame>>

\* The process ends: return from main, or an exception left it.
Exit(e) ==
    /\ pc' = "idle"
    /\ exc' = e
    /\ NoMemory

\* choice '0'
ChooseExit ==
    /\ UNCHANGED <<recovery, synthesis, calls, retries>>
    /\ pc = "menu"
    /\ Exit("")
    /\ UNCHANGED disk

\* Faulty variant: a resumed batch keeps the results and starts over at the first row
ResumeIndexFromStart(progress) == 0

\* choice 'R': analyze_csv_data(csv_file, resume_progress=unfinished_progress)
ResumeIndex(progress) == progress.processed

\* Faulty variant: a resumed batch reads the rows of the source again
ResumeRowsFromSource(progress) == csv

\* rows = resume_progress.get('rows_data', [])
ResumeRows(progress) == progress.rows_data

ChooseResume ==
    /\ UNCHANGED <<recovery, synthesis, calls, retries>>
    /\ pc = "menu"
    /\ unfinished # << >>
    /\ mode' = "resume"
    /\ results' = unfinished[1].results
    /\ rows' = ResumeRows(unfinished[1])
    /\ idx' = ResumeIndex(unfinished[1])
    /\ pc' = "loop"
    /\ UNCHANGED <<disk, exc, unfinished, failed_indices, fpos, frame>>

\* Faulty variant: the progress file is kept until the new batch writes its own
ChooseNewKeeping ==
    /\ UNCHANGED <<recovery, synthesis, calls, retries>>
    /\ pc = "menu"
    /\ result_file.st = "absent"
    /\ \/ /\ unfinished = << >>
          /\ pc' = "select"
          /\ UNCHANGED <<disk, exc, unfinished, mode, rows, results, idx,
                         failed_indices, fpos, frame>>
       \/ /\ unfinished # << >>
          /\ \E confirm \in {"y", "n"} :
                IF confirm = "y"
                THEN /\ pc' = "select"
                     /\ UNCHANGED <<disk, exc, unfinished, mode, rows, results, idx,
                                    failed_indices, fpos, frame>>
                ELSE /\ Exit("")
                     /\ UNCHANGED disk

\* choice '1': with an unfinished task the user is asked to confirm, and
\* clear_progress runs before the file is selected.
ChooseNew ==
    /\ UNCHANGED <<recovery, synthesis, calls, retries>>
    /\ pc = "menu"
    /\ result_file.st = "absent"
    /\ \/ /\ unfinished = << >>
          /\ pc' = "select"
          /\ UNCHANGED <<disk, exc, unfinished, mode, rows, results, idx,
                         failed_indices, fpos, frame>>
       \/ /\ unfinished # << >>
          /\ \E confirm \in {"y", "n"} :
                IF confirm = "y"
                THEN /\ progress_file' = NoFile
                     /\ pc' = "select"
                     /\ UNCHANGED <<csv, csv_exists, gen, result_file, triaged, exc, unfinished,
                                    mode, rows, results, idx, failed_indices, fpos, frame>>
                ELSE /\ Exit("")
                     /\ UNCHANGED disk

\* select_csv_file, then the fresh branch of analyze_csv_data.
SelectCsv ==
    /\ UNCHANGED <<recovery, synthesis, calls, retries>>
    /\ pc = "select"
    /\ \/ /\ Exit("")
          /\ UNCHANGED disk
       \/ /\ csv_exists
          /\ mode' = "fresh"
          /\ results' = << >>
          /\ rows' = csv
          /\ idx' = 0
          /\ pc' = "loop"
          /\ UNCHANGED <<disk, exc, unfinished, failed_indices, fpos, frame>>

(***************************************************************************)
(* analyze_csv_data: the batch loop.                                        *)
(***************************************************************************)
RowPrompt(row) ==
    [question |-> row.question, answer |-> row.answer, platform |-> row.platform]

\* Faulty variant: no row is taken for an empty one
IsEmptyRowNever(row) == FALSE

\* if not question or not ai_response
IsEmptyRow(row) == row.question = EmptyStr \/ row.answer = EmptyStr

\* save_progress opens the file for writing, which empties it ...
OpenProgress ==
    /\ progress_file' = TruncatedFile
    /\ pc' = "write"

\* Faulty variant: the index of the row, not the count of rows done, is saved
SavedProcessedOffByOne(i) == i

\* ... and json.dump then writes the document.  current_idx = idx + 1.
SavedProcessed(i) == i + 1

\* Faulty variant: the snapshot is written and the same row is taken again
WriteProgressStalling ==
    /\ UNCHANGED <<recovery, synthesis, calls, retries>>
    /\ pc = "write"
    /\ progress_file' = ProgressData(Len(rows), SavedProcessed(idx), results, rows)
    /\ pc' = "loop"
    /\ UNCHANGED <<csv, csv_exists, gen, result_file, triaged, exc, unfinished, mode, rows,
                   results, idx, failed_indices, fpos, frame>>

WriteProgress ==
    /\ UNCHANGED <<recovery, synthesis, calls, retries>>
    /\ pc = "write"
    /\ progress_file' = ProgressData(Len(rows), SavedProcessed(idx), results, rows)
    /\ idx' = idx + 1
    /\ pc' = "loop"
    /\ UNCHANGED <<csv, csv_exists, gen, result_file, triaged, exc, unfinished, mode, rows,
                   results, failed_indices, fpos, frame>>

LoopSkip ==
    /\ UNCHANGED <<recovery, synthesis, calls, retries>>
    /\ pc = "loop"
    /\ idx < Len(rows)
    /\ IsEmptyRow(rows[idx + 1])
    /\ OpenProgress
    /\ UNCHANGED <<csv, csv_exists, gen, result_file, triaged, exc, unfinished, mode, rows,
                   results, idx, failed_indices, fpos, frame>>

LoopDispatch ==
    /\ UNCHANGED <<recovery, synthesis, calls, retries>>
    /\ pc = "loop"
    /\ idx < Len(rows)
    /\ ~IsEmptyRow(rows[idx + 1])
    /\ pc' = "call"
    /\ attempt' = 0
    /\ error_msg' = ""
    /\ ret' = << >>
    /\ exhausted' = FALSE
    /\ UNCHANGED <<disk, exc, unfinished, mode, rows, results, idx, failed_indices, fpos>>

\* Faulty variant: the identifier of the row is not carried into the result
WithSeqDropped(v, s) == v

\* analysis_result['序号'] = row.get('序号', current_idx); results.append(...)
WithSeq(v, s) == [v EXCEPT !.seq = s]

StoreResult ==
    /\ UNCHANGED <<recovery, synthesis, calls, retries>>
    /\ pc = "return"
    /\ mode # "triage"
    /\ IF ret[1].type = "dict"
       THEN /\ results' = Append(results, WithSeq(ret[1], rows[idx + 1].seq))
            /\ OpenProgress
            /\ attempt' = 0
            /\ error_msg' = ""
            /\ ret' = << >>
            /\ exhausted' = FALSE
            /\ UNCHANGED <<csv, csv_exists, gen, result_file, triaged, exc, unfinished, mode,
                           rows, idx, failed_indices, fpos>>
       ELSE \* item assignment on a list or a str: TypeError leaves the process
            /\ Exit("TypeError")
            /\ UNCHANGED disk

\* Faulty variant: the batch returns without clear_progress
LoopExitKeeping ==
    /\ UNCHANGED <<recovery, synthesis, calls, retries>>
    /\ pc = "loop"
    /\ idx >= Len(rows)
    /\ pc' = "returned"
    /\ UNCHANGED <<disk, exc, unfinished, mode, rows, results, idx,
                   failed_indices, fpos, frame>>

\* The loop is over: clear_progress, then return results.
LoopExit ==
    /\ UNCHANGED <<recovery, synthesis, calls, retries>>
    /\ pc = "loop"
    /\ idx >= Len(rows)
    /\ progress_file' = NoFile
    /\ pc' = "returned"
    /\ UNCHANGED <<csv, csv_exists, gen, result_file, triaged, exc, unfinished, mode, rows,
                   results, idx, failed_indices, fpos, frame>>

\* save_results(results, csv_filename=csv_file) in main.
SaveResults ==
    /\ UNCHANGED <<recovery, synthesis, calls, retries>>
    /\ pc = "returned"
    /\ result_file' = ResultsData(results)
    /\ Exit("")
    /\ UNCHANGED <<csv, csv_exists, gen, progress_file, triaged>>

(***************************************************************************)
(* analyze_single_response: one iteration of `for attempt in range(...)`.   *)
(***************************************************************************)
ResultPrompt(result) ==
    [question |-> result.User_Query, answer |-> result.AI_Response,
     platform |-> result.Platform]

Prompt ==
    IF mode = "triage" THEN ResultPrompt(results[failed_indices[fpos]])
    ELSE RowPrompt(rows[idx + 1])

\* The answers the batch is run against: one per way an attempt can end and
\* per kind of value it can hand back (the other names end an attempt the
\* same way as one of these).
BatchAnswers ==
    {"raise", "garbage", "missing", "ok", "empty", "sentinel", "list_all"}

Answers(pr, n) ==
    IF gen = << >> THEN BatchAnswers ELSE {gen[pr.question[2]][n + 1]}

\* Faulty variant: the first failed attempt already gives up
LastAttemptAlways(n) == TRUE

\* Faulty variant: one more attempt is made before giving up
LastAttemptLate(n) == n = max_retries

\* if attempt == max_retries - 1 (the last iteration of range(max_retries))
LastAttempt(n) == n = retries - 1

\* `counted` tells whether the history variable calls records the call.
AttemptStep(counted) ==
    /\ UNCHANGED <<recovery, synthesis, retries>>
    /\ calls' = IF counted THEN calls + 1 ELSE calls
    /\ pc = "call"
    /\ \E name \in Answers(Prompt, attempt) :
          LET t == TryOnce(GenOutcome(name, Prompt))
          IN IF t.ok
             THEN \* return result: the locals of the call are gone
                  /\ ret' = <<t.value>>
                  /\ exhausted' = FALSE
                  /\ pc' = "return"
                  /\ attempt' = 0
                  /\ error_msg' = ""
             ELSE /\ error_msg' = t.error
                  /\ IF LastAttempt(attempt)
                     THEN /\ ret' = <<FailureResult(Prompt, retries, t.error)>>
                          /\ exhausted' = TRUE
                          /\ pc' = "return"
                          /\ attempt' = 0
                     ELSE /\ attempt' = attempt + 1
                          /\ UNCHANGED <<ret, exhausted, pc>>
    /\ UNCHANGED <<disk, exc, unfinished, mode, rows, results, idx, failed_indices, fpos>>

Attempt == AttemptStep(FALSE)

\* The same step, counted.
CountedAttempt == AttemptStep(TRUE)

(***************************************************************************)
(* main, choice '2': find_failed_analyses and reanalyze_failed_items.       *)
(***************************************************************************)
ChooseTriage ==
    /\ UNCHANGED <<recovery, synthesis, calls, retries>>
    /\ pc = "menu"
    /\ \/ \* no result file, no failed entry, or the user does not confirm
          /\ Exit("")
          /\ UNCHANGED disk
       \/ /\ result_file.st = "json"
          /\ find_failed_analyses(result_file.results) # {}
          /\ mode' = "triage"
          /\ results' = result_file.results
          /\ failed_indices' = SortedSeq(find_failed_analyses(result_file.results))
          /\ fpos' = 1
          /\ pc' = "tloop"
          /\ UNCHANGED <<disk, exc, unfinished, rows, idx, frame>>

TriageDispatch ==
    /\ UNCHANGED <<recovery, synthesis, calls, retries>>
    /\ pc = "tloop"
    /\ fpos <= Len(failed_indices)
    /\ pc' = "call"
    /\ attempt' = 0
    /\ error_msg' = ""
    /\ ret' = << >>
    /\ exhausted' = FALSE
    /\ UNCHANGED <<disk, exc, unfinished, mode, rows, results, idx, failed_indices, fpos>>

\* new_result['序号'] = result.get('序号', ''); results[failed_idx] = new_result
Replaced(rs, i, v) == [rs EXCEPT ![i] = WithSeq(v, rs[i].seq)]

\* Faulty variant: the pass writes the result file after each replacement
TriageReplaceSaving ==
    /\ UNCHANGED <<recovery, synthesis, calls, retries>>
    /\ pc = "return"
    /\ mode = "triage"
    /\ IF ret[1].type = "dict"
       THEN /\ results' = Replaced(results, failed_indices[fpos], ret[1])
            /\ result_file' = ResultsData(results')
            /\ fpos' = fpos + 1
            /\ pc' = "tloop"
            /\ attempt' = 0
            /\ error_msg' = ""
            /\ ret' = << >>
            /\ exhausted' = FALSE
            /\ UNCHANGED <<csv, csv_exists, gen, progress_file, triaged, exc,
                           unfinished, mode, rows, idx, failed_indices>>
       ELSE /\ Exit("TypeError")
            /\ UNCHANGED disk

TriageReplace ==
    /\ UNCHANGED <<recovery, synthesis, calls, retries>>
    /\ pc = "return"
    /\ mode = "triage"
    /\ IF ret[1].type = "dict"
       THEN /\ results' = Replaced(results, failed_indices[fpos], ret[1])
            /\ fpos' = fpos + 1
            /\ pc' = "tloop"
            /\ attempt' = 0
            /\ error_msg' = ""
            /\ ret' = << >>
            /\ exhausted' = FALSE
            /\ UNCHANGED <<disk, exc, unfinished, mode, rows, idx, failed_indices>>
       ELSE /\ Exit("TypeError")
            /\ UNCHANGED disk

\* Faulty variant: the pass removes the progress file once it has saved
TriageSaveClearing ==
    /\ UNCHANGED <<recovery, synthesis, calls, retries>>
    /\ pc = "tloop"
    /\ fpos > Len(failed_indices)
    /\ result_file' = ResultsData(results)
    /\ triaged' = TRUE
    /\ progress_file' = NoFile
    /\ Exit("")
    /\ UNCHANGED <<csv, csv_exists, gen>>

\* save_results(results, filepath=selected_file)
TriageSave ==
    /\ UNCHANGED <<recovery, synthesis, calls, retries>>
    /\ pc = "tloop"
    /\ fpos > Len(failed_indices)
    /\ result_file' = ResultsData(results)
    /\ triaged' = TRUE
    /\ Exit("")
    /\ UNCHANGED <<csv, csv_exists, gen, progress_file>>

(***************************************************************************)
(* The environment: the process is killed; the source file is removed.      *)
(***************************************************************************)
Crash ==
    /\ UNCHANGED <<recovery, synthesis, calls, retries>>
    /\ pc # "idle"
    /\ Exit("killed")
    /\ UNCHANGED disk

\* Ctrl+C: KeyboardInterrupt is no Exception, so analyze_single_response
\* lets it through, analyze_csv_data prints and re-raises it (lines
\* 385-389) and main's handlers (FileNotFoundError, Exception) let it leave
\* the process.  A file being written stays as far as it was written.
Interrupt ==
    /\ UNCHANGED <<recovery, synthesis, calls, retries>>
    /\ pc # "idle"
    /\ Exit("KeyboardInterrupt")
    /\ UNCHANGED disk

\* save_progress raises (OSError): json.dump fails after open has emptied
\* the file, or open itself fails (lines 358 and 377) and the file is as it
\* was.  analyze_csv_data's handler re-raises (lines 390-394) and main's
\* `except Exception` prints the error: the process ends.
SaveFails ==
    /\ UNCHANGED <<recovery, synthesis, calls, retries>>
    /\ \/ pc = "write"
       \/ mode # "triage" /\ pc = "return" /\ ret[1].type = "dict"
       \/ pc = "loop" /\ idx < Len(rows) /\ IsEmptyRow(rows[idx + 1])
    /\ Exit("OSError")
    /\ UNCHANGED disk

\* The source as rewritten by its owner: the same number of rows, each
\* filled in where it was empty and emptied of its answer where it was not.
Rewritten(src) ==
    [i \in 1..Len(src) |-> Row(i, IF IsEmptyRow(src[i]) THEN "full" ELSE "nor")]

\* The source is rewritten while an unfinished progress file made from it
\* waits.
ChangeSource ==
    /\ UNCHANGED <<recovery, synthesis, calls, retries>>
    /\ pc = "idle"
    /\ csv_exists
    /\ progress_file.st = "json"
    /\ progress_file.processed < progress_file.total
    /\ progress_file.rows_data = csv
    /\ csv' = Rewritten(csv)
    /\ UNCHANGED <<csv_exists, gen, progress_file, result_file, triaged, pc, exc,
                   unfinished, mode, rows, results, idx, failed_indices, fpos, frame>>

\* The source is read by nothing once the result file of the run is written.
RemoveSource ==
    /\ UNCHANGED <<recovery, synthesis, calls, retries>>
    /\ pc = "idle"
    /\ csv_exists
    /\ result_file.st = "absent"
    /\ csv_exists' = FALSE
    /\ UNCHANGED <<csv, gen, progress_file, result_file, triaged, pc, exc, unfinished, mode,
                   rows, results, idx, failed_indices, fpos, frame>>

Next ==
    \/ Start
    \/ ChooseExit
    \/ ChooseResume
    \/ ChooseNew
    \/ SelectCsv
    \/ LoopSkip
    \/ LoopDispatch
    \/ Attempt
    \/ StoreResult
    \/ WriteProgress
    \/ LoopExit
    \/ SaveResults
    \/ ChooseTriage
    \/ TriageDispatch
    \/ TriageReplace
    \/ TriageSave
    \/ Crash
    \/ Interrupt
    \/ SaveFails
    \/ RemoveSource

Spec == Init /\ [][Next]_vars

\* With stub generators the source may also be rewritten between two runs.
NextDet ==
    \/ Next
    \/ ChangeSource

SpecDet == InitDet /\ [][NextDet]_vars

(***************************************************************************)
(* The program with stub generators and its generator calls counted.  A     *)
(* generator call returns or raises, and the interpreter goes on with the   *)
(* loop it is in: the steps of the batch loop and of the re-analysis pass   *)
(* are taken when they can be.  Nothing is assumed of the user at the menu  *)
(* or of the environment.                                                   *)
(***************************************************************************)
NextTermination ==
    \/ Start
    \/ ChooseExit
    \/ ChooseResume
    \/ ChooseNew
    \/ SelectCsv
    \/ LoopSkip
    \/ LoopDispatch
    \/ CountedAttempt
    \/ StoreResult
    \/ WriteProgress
    \/ LoopExit
    \/ SaveResults
    \/ ChooseTriage
    \/ TriageDispatch
    \/ TriageReplace
    \/ TriageSave
    \/ Crash
    \/ Interrupt
    \/ SaveFails

\* The steps of analyze_csv_data, reanalyze_failed_items and the save that
\* follows them in main.
Run ==
    \/ LoopSkip
    \/ LoopDispatch
    \/ CountedAttempt
    \/ StoreResult
    \/ WriteProgress
    \/ LoopExit
    \/ SaveResults
    \/ TriageDispatch
    \/ TriageReplace
    \/ TriageSave

\* The stubs that matter to the number of calls: the first call is accepted,
\* every call fails, the last call allowed is accepted.
TerminationScripts ==
    {<<"ok", "ok", "ok">>, <<"raise", "raise", "raise">>, <<"raise", "garbage", "noise">>}

InitTermination ==
    /\ InitDet
    /\ \A i \in 1..Len(csv) : gen[i] \in TerminationScripts

SpecTermination == InitTermination /\ [][NextTermination]_vars /\ WF_vars(Run)

(***************************************************************************)
(* Re-analysis run over the result file of a completed batch while the      *)
(* progress file of a later batch over the same source, stopped after k     *)
(* rows, is on disk (or is absent, or was left half written).  The          *)
(* generator is a stub, as in SpecDet.                                      *)
(***************************************************************************)
Analysed(src) == SelectSeq(src, LAMBDA r : ~IsEmptyRow(r))

\* The results a completed batch can have left: for each analysed row a
\* well-formed result or the placeholder of a failed generator call.
BatchResults(src) ==
    LET a == Analysed(src)
    IN {[i \in 1..Len(a) |->
            WithSeq(IF ok[i] THEN OkValue(RowPrompt(a[i]))
                             ELSE FailureResult(RowPrompt(a[i]), max_retries, "api_error"),
                    a[i].seq)] : ok \in [1..Len(a) -> BOOLEAN]}

\* The snapshot written after k rows of a batch whose results would be rs.
LedgerAfter(src, k, rs) ==
    ProgressData(Len(src), k,
                 SubSeq(rs, 1, Len(Analysed(SubSeq(src, 1, k)))), src)

\* The later batch got the results of the completed one, as far as it went.
Ledgers(src, rs) ==
    {NoFile, TruncatedFile} \cup {LedgerAfter(src, k, rs) : k \in 1..Len(src)}

\* Sources in which no row is empty.
FullSources == {RowsOf([i \in 1..n |-> "full"]) : n \in 1..MaxRecords}

InitTriage ==
    /\ csv \in FullSources
    /\ csv_exists = TRUE
    /\ gen \in [1..Len(csv) -> DetScripts]
    /\ result_file \in {ResultsData(rs) : rs \in BatchResults(csv)}
    /\ progress_file \in Ledgers(csv, result_file.results)
    /\ triaged = FALSE
    /\ pc = "idle"
    /\ exc = ""
    /\ unfinished = << >>
    /\ mode = "fresh"
    /\ rows = << >>
    /\ results = << >>
    /\ idx = 0
    /\ failed_indices = << >>
    /\ fpos = 0
    /\ attempt = 0
    /\ error_msg = ""
    /\ ret = << >>
    /\ exhausted = FALSE
    /\ calls = 0
    /\ retries = max_retries
    /\ critical_issues = NoIssues
    /\ platform = << >>
    /\ text = << >>
    /\ stage = "off"
    /\ cand = 0
    /\ tried = << >>
    /\ parsed = << >>
    /\ signalled = FALSE

\* The process is started and the user chooses '2' (or '0').
NextTriage ==
    \/ Start
    \/ ChooseExit
    \/ ChooseTriage
    \/ TriageDispatch
    \/ Attempt
    \/ TriageReplace
    \/ TriageSave
    \/ Crash
    \/ Interrupt

SpecTriage == InitTriage /\ [][NextTriage]_vars

(***************************************************************************)
(* analyze_single_response run alone on one record, with max_retries drawn  *)
(* from 0..3 and a generator that answers freely.                           *)
(***************************************************************************)
\* Faulty variant: the mapping after the loop embeds nothing of the record
FallbackResultBlank(pr) ==
    [type |-> "dict", has |-> required_fields,
     Platform |-> EmptyStr, User_Query |-> EmptyStr,
     AI_Response |-> EmptyStr, Security_Status |-> SENTINEL,
     Risk_Diagnosis |-> <<"unknown_error">>, seq |-> 0]

\* The mapping returned after the loop, when no iteration has returned.
FallbackResult(pr) ==
    [type |-> "dict", has |-> required_fields,
     Platform |-> pr.platform, User_Query |-> pr.question,
     AI_Response |-> pr.answer, Security_Status |-> SENTINEL,
     Risk_Diagnosis |-> <<"unknown_error">>, seq |-> 0]

InitProcessor ==
    /\ csv \in {RowsOf(<<k>>) : k \in RowKinds}
    /\ csv_exists = TRUE
    /\ gen = << >>
    /\ progress_file = NoFile
    /\ result_file = NoFile
    /\ triaged = FALSE
    /\ pc = "enter"
    /\ exc = ""
    /\ unfinished = << >>
    /\ mode = "fresh"
    /\ rows = csv
    /\ results = << >>
    /\ idx = 0
    /\ failed_indices = << >>
    /\ fpos = 0
    /\ attempt = 0
    /\ error_msg = ""
    /\ ret = << >>
    /\ exhausted = FALSE
    /\ calls = 0
    /\ retries \in 0..max_retries
    /\ critical_issues = NoIssues
    /\ platform = << >>
    /\ text = << >>
    /\ stage = "off"
    /\ cand = 0
    /\ tried = << >>
    /\ parsed = << >>
    /\ signalled = FALSE

\* for attempt in range(max_retries): the first iteration if there is one,
\* else the return that follows the loop.
ProcessorEnter ==
    /\ UNCHANGED <<recovery, synthesis, calls, retries>>
    /\ pc = "enter"
    /\ IF retries = 0
       THEN /\ ret' = <<FallbackResult(Prompt)>>
            /\ pc' = "return"
       ELSE /\ pc' = "call"
            /\ ret' = << >>
    /\ attempt' = 0
    /\ error_msg' = ""
    /\ exhausted' = FALSE
    /\ UNCHANGED <<disk, exc, unfinished, mode, rows, results, idx, failed_indices, fpos>>

NextProcessor ==
    \/ ProcessorEnter
    \/ CountedAttempt

SpecProcessor == InitProcessor /\ [][NextProcessor]_vars

(***************************************************************************)
(* extract_and_parse_json run alone, one try block per step, over a         *)
(* bounded set of texts.  A text is given by what each candidate substring  *)
(* parses to; the values of the candidates differ, so that the value        *)
(* returned tells the candidate it came from.                               *)
(***************************************************************************)
SlotValue(k) == Value("dict", required_fields, <<"P", k>>, <<"Q", k>>, <<"A", k>>, "SAFE")

Slot(k) == {NoParse, <<SlotValue(k)>>}

\* "```json" in text implies "```" in text; a substring that is not taken
\* is parsed by nothing.
GridTexts ==
    {Text(f, tg, tb, fc, fb, br, bb, rf, rt, rfe, rb) :
        f \in Slot(1), tg \in BOOLEAN, tb \in Slot(2), fc \in BOOLEAN, fb \in Slot(3),
        br \in BOOLEAN, bb \in Slot(4), rf \in Slot(5), rt \in Slot(6),
        rfe \in Slot(7), rb \in Slot(8)}

Texts ==
    {t \in GridTexts :
        /\ t.tagged => t.fenced
        /\ ~t.tagged => (t.taggedBody = NoParse /\ t.repTagged = NoParse)
        /\ ~t.fenced => (t.fencedBody = NoParse /\ t.repFenced = NoParse)
        /\ ~t.braces => (t.braceBody = NoParse /\ t.repBrace = NoParse)}
    \cup {GenOutcome(name, RowPrompt(Row(1, "full"))) : name \in OutcomeNames \ {"raise"}}

InitRecovery ==
    /\ csv = RowsOf(<<"full">>)
    /\ csv_exists = TRUE
    /\ gen = << >>
    /\ progress_file = NoFile
    /\ result_file = NoFile
    /\ triaged = FALSE
    /\ pc = "idle"
    /\ exc = ""
    /\ unfinished = << >>
    /\ mode = "fresh"
    /\ rows = << >>
    /\ results = << >>
    /\ idx = 0
    /\ failed_indices = << >>
    /\ fpos = 0
    /\ attempt = 0
    /\ error_msg = ""
    /\ ret = << >>
    /\ exhausted = FALSE
    /\ calls = 0
    /\ retries = max_retries
    /\ critical_issues = NoIssues
    /\ platform = << >>
    /\ text \in Texts
    /\ stage = "direct"
    /\ cand = 0
    /\ tried = << >>
    /\ parsed = << >>
    /\ signalled = FALSE

\* try: return json.loads(<candidate>) / except: pass.  The candidate
\* parses, or it does not, or a KeyboardInterrupt raised inside the block
\* is caught by the bare except like any failure of the parse.
TryParse(name, slot, next, nextcand) ==
    /\ tried' = Append(tried, name)
    /\ \/ /\ slot # NoParse
          /\ parsed' = slot
          /\ stage' = "returned"
          /\ UNCHANGED <<cand, signalled>>
       \/ /\ slot = NoParse
          /\ stage' = next
          /\ cand' = nextcand
          /\ UNCHANGED <<parsed, signalled>>
       \/ /\ signalled' = TRUE
          /\ stage' = next
          /\ cand' = nextcand
          /\ UNCHANGED parsed

\* The block is not entered: its `if` is false.
SkipBlock(next, nextcand) ==
    /\ stage' = next
    /\ cand' = nextcand
    /\ UNCHANGED <<tried, parsed, signalled>>

\* 策略1, lines 103-107
DirectParse ==
    /\ stage = "direct"
    /\ TryParse("direct", text.full, "tagged", 0)
    /\ UNCHANGED <<program, synthesis, text>>

\* 策略2, lines 110-115
TaggedBlock ==
    /\ stage = "tagged"
    /\ IF text.tagged THEN TryParse("tagged", text.taggedBody, "fenced", 0)
                      ELSE SkipBlock("fenced", 0)
    /\ UNCHANGED <<program, synthesis, text>>

\* lines 117-122
FencedBlock ==
    /\ stage = "fenced"
    /\ IF text.fenced THEN TryParse("fenced", text.fencedBody, "braces", 0)
                      ELSE SkipBlock("braces", 0)
    /\ UNCHANGED <<program, synthesis, text>>

\* 策略3, lines 125-132
BraceSlice ==
    /\ stage = "braces"
    /\ IF text.braces THEN TryParse("braces", text.braceBody, "repair", 1)
                      ELSE SkipBlock("repair", 1)
    /\ UNCHANGED <<program, synthesis, text>>

\* The names of json_candidates, in the order of the list.
candidate_names(t) ==
    <<"repair direct">>
    \o (IF t.tagged THEN <<"repair tagged">> ELSE << >>)
    \o (IF t.fenced THEN <<"repair fenced">> ELSE << >>)
    \o (IF t.braces THEN <<"repair braces">> ELSE << >>)

\* 策略4, lines 151-158: one iteration of `for candidate in json_candidates`.
RepairCandidate ==
    /\ stage = "repair"
    /\ cand <= Len(json_candidates(text))
    /\ TryParse(candidate_names(text)[cand], json_candidates(text)[cand], "repair", cand + 1)
    /\ UNCHANGED <<program, synthesis, text>>

\* line 163: raise ValueError("无法提取或修复JSON")
RecoveryFails ==
    /\ stage = "repair"
    /\ cand > Len(json_candidates(text))
    /\ stage' = "raised"
    /\ UNCHANGED <<program, synthesis, text, cand, tried, parsed, signalled>>

\* A KeyboardInterrupt raised outside the try blocks (the tests of lines
\* 110 and 117) leaves the function.
RecoveryInterrupt ==
    /\ stage \in {"tagged", "fenced"}
    /\ signalled' = TRUE
    /\ stage' = "interrupted"
    /\ UNCHANGED <<program, synthesis, text, cand, tried, parsed>>

NextRecovery ==
    \/ DirectParse
    \/ TaggedBlock
    \/ FencedBlock
    \/ BraceSlice
    \/ RepairCandidate
    \/ RecoveryFails
    \/ RecoveryInterrupt

SpecRecovery == InitRecovery /\ [][NextRecovery]_vars

(***************************************************************************)
(* extract_platforms (3-synthesize_solutions.py) run alone.  An item is     *)
(* given by the value of its Platform field (an item without the field     *)
(* counts as ""); critical_issues holds the items of the two categories    *)
(* "高危" (high) and "预警" (warn).  The string returned is given by the     *)
(* labels that "、".join puts together.                                      *)
(***************************************************************************)
\* Largest number of items of critical_issues.
MaxIssues == 4

\* if count / total_count > 0.7, as the fraction 7/10.
threshold_num == 7
threshold_den == 10

\* The literal returned when there is no label: '多个AI平台'.
GENERIC == "MULTIPLE_AI_PLATFORMS"

\* Values of the Platform field: absent or empty, blank, the two spellings
\* of DeepSeek found in the data, a padded label, and two other labels.
RawLabels == {"", " ", "deepseek", "DeepSeek", " Kimi ", "Doubao", "Qwen"}

\* str.strip over RawLabels.
strip(l) ==
    CASE l = " "      -> ""
      [] l = " Kimi " -> "Kimi"
      [] OTHER        -> l

\* str.lower over the stripped labels.
lower(l) ==
    CASE l = "DeepSeek" -> "deepseek"
      [] l = "Kimi"     -> "kimi"
      [] l = "Doubao"   -> "doubao"
      [] l = "Qwen"     -> "qwen"
      [] OTHER          -> l

\* platform_normalized
Normalized(l) == IF lower(l) = "deepseek" THEN "DeepSeek" ELSE l

\* The loop over the items of one category, appending to acc.
RECURSIVE Collect(_, _)
Collect(items, acc) ==
    IF items = << >> THEN acc
    ELSE LET p == strip(Head(items))
         IN Collect(Tail(items), IF p # "" THEN Append(acc, Normalized(p)) ELSE acc)

\* all_platforms: for category in ["高危", "预警"]
AllPlatforms(ci) == Collect(ci.warn, Collect(ci.high, << >>))

\* Counter(all_platforms)[p]
Count(all, p) == Cardinality({i \in DOMAIN all : all[i] = p})

\* The keys of the Counter, in the order of their first occurrence.
RECURSIVE Keys(_)
Keys(all) ==
    IF all = << >> THEN << >>
    ELSE LET k == Keys(SubSeq(all, 1, Len(all) - 1))
             p == all[Len(all)]
         IN IF \E i \in DOMAIN k : k[i] = p THEN k ELSE Append(k, p)

\* Counter.most_common(n): the n keys of largest count, largest first, keys
\* of equal count in the order of their first occurrence.
RECURSIVE MostCommonOf(_, _, _)
MostCommonOf(all, keys, n) ==
    IF n = 0 \/ keys = << >> THEN << >>
    ELSE LET i == CHOOSE i \in DOMAIN keys :
                    \A j \in DOMAIN keys :
                        \/ Count(all, keys[j]) < Count(all, keys[i])
                        \/ Count(all, keys[j]) = Count(all, keys[i]) /\ i <= j
         IN <<keys[i]>> \o
            MostCommonOf(all, SubSeq(keys, 1, i - 1) \o SubSeq(keys, i + 1, Len(keys)),
                         n - 1)

most_common(all, n) == MostCommonOf(all, Keys(all), n)

\* Faulty variant: a label with exactly 70% of the occurrences is dominant
DominantAtLeast(count, total_count) ==
    threshold_den * count >= threshold_num * total_count

\* count / total_count > 0.7.  The quotient of two small integers is the
\* double nearest to the fraction, and 0.7 is the double nearest to 7/10:
\* the comparison is that of the fractions.
Dominant(count, total_count) ==
    threshold_den * count > threshold_num * total_count

extract_platforms(ci) ==
    LET all_platforms == AllPlatforms(ci)
    IN IF all_platforms = << >> THEN <<GENERIC>>
       ELSE LET most_common_platform == most_common(all_platforms, 1)[1]
                count == Count(all_platforms, most_common_platform)
            IN IF Dominant(count, Len(all_platforms))
               THEN <<most_common_platform>>
               ELSE most_common(all_platforms, 3)

\* critical_issues whose items are those of s, the first k being high-risk.
Split(s, k) == [high |-> SubSeq(s, 1, k), warn |-> SubSeq(s, k + 1, Len(s))]

\* The two labels of the inputs of threshold_den items, among which a label
\* has exactly 70% of the occurrences.
BoundaryLabels == {"Doubao", "Qwen"}

InitPlatforms ==
    /\ csv = RowsOf(<<"full">>)
    /\ csv_exists = TRUE
    /\ gen = << >>
    /\ progress_file = NoFile
    /\ result_file = NoFile
    /\ triaged = FALSE
    /\ pc = "idle"
    /\ exc = ""
    /\ unfinished = << >>
    /\ mode = "fresh"
    /\ rows = << >>
    /\ results = << >>
    /\ idx = 0
    /\ failed_indices = << >>
    /\ fpos = 0
    /\ attempt = 0
    /\ error_msg = ""
    /\ ret = << >>
    /\ exhausted = FALSE
    /\ calls = 0
    /\ retries = max_retries
    /\ \/ \E n \in 0..MaxIssues : \E s \in [1..n -> RawLabels] : \E k \in 0..n :
              critical_issues = Split(s, k)
       \/ \E s \in [1..threshold_den -> BoundaryLabels] :
              critical_issues = Split(s, threshold_den)
    /\ platform = << >>
    /\ text = << >>
    /\ stage = "off"
    /\ cand = 0
    /\ tried = << >>
    /\ parsed = << >>
    /\ signalled = FALSE

\* platform = extract_platforms(critical_issues)
ExtractPlatforms ==
    /\ platform = << >>
    /\ platform' = <<extract_platforms(critical_issues)>>
    /\ UNCHANGED <<program, recovery, critical_issues>>

NextPlatforms == ExtractPlatforms

SpecPlatforms == InitPlatforms /\ [][NextPlatforms]_vars

(***************************************************************************)
(* What the properties speak of.                                            *)
(***************************************************************************)
\* A result with every required field present and non-empty.
WellFormed(v) ==
    /\ v.type = "dict"
    /\ HasRequiredFields(v)
    /\ v.Security_Status \notin {"", "ABSENT", SENTINEL}
    /\ v.Platform # EmptyStr /\ v.User_Query # EmptyStr /\ v.AI_Response # EmptyStr

\* A result marked with the reserved status.
IsPlaceholder(v) == v.type = "dict" /\ v.Security_Status = SENTINEL

\* A re-analysis pass is running.
InTriage == mode = "triage" /\ pc \in {"tloop", "call", "return"}

\* What a restarted process can read back of the results.
Recoverable ==
    IF progress_file.st = "json" THEN progress_file.results
    ELSE IF result_file.st = "json" THEN result_file.results
    ELSE << >>

\* The run of the stub generator over one record, all attempts.
RECURSIVE StubAnalysis(_, _, _)
StubAnalysis(pr, script, n) ==
    LET t == TryOnce(GenOutcome(script[n + 1], pr))
    IN IF t.ok THEN t.value
       ELSE IF n = max_retries - 1 THEN FailureResult(pr, max_retries, t.error)
       ELSE StubAnalysis(pr, script, n + 1)

\* The results of a batch over src that nothing stops, from row i on.
RECURSIVE Uninterrupted(_, _, _)
Uninterrupted(src, i, acc) ==
    IF i > Len(src) THEN acc
    ELSE IF IsEmptyRow(src[i]) THEN Uninterrupted(src, i + 1, acc)
    ELSE Uninterrupted(src, i + 1,
            Append(acc, WithSeq(StubAnalysis(RowPrompt(src[i]), gen[i], 0), src[i].seq)))

(***************************************************************************)
(* Properties.                                                              *)
(***************************************************************************)

\* C1: a batch that runs to completion returns exactly one result per input
\* row, the i-th result being that of the i-th row (rows with an empty
\* question or answer included).
Completeness ==
    pc = "returned" =>
        /\ Len(results) = Len(rows)
        /\ \A i \in 1..Len(results) : results[i].seq = rows[i].seq

\* C1, amended: a batch that runs to completion returns exactly one result
\* per row whose question and answer are both non-empty, in the order of the
\* rows; a row with an empty question or answer contributes no result.
CompletenessOfAnalysed ==
    pc = "returned" =>
        LET analysed == SelectSeq(rows, LAMBDA r : ~IsEmptyRow(r))
        IN /\ Len(results) = Len(analysed)
           /\ \A i \in 1..Len(results) : results[i].seq = analysed[i].seq

\* C1 witness: a resumed batch over two rows, one of them skipped, has
\* returned one result.
CompletenessWitness ==
    /\ pc = "returned" /\ mode = "resume"
    /\ Len(rows) = 2 /\ Len(results) = 1

\* C2: in every snapshot written by save_progress, processed equals the
\* number of entries of the persisted results.
LedgerInvariant ==
    progress_file.st = "json" =>
        progress_file.processed = Len(progress_file.results)

\* C2, amended: in every snapshot written by save_progress, processed is the
\* number of rows consumed: the number of persisted results plus the number
\* of rows skipped as empty among the first processed rows.
LedgerCountsRows ==
    progress_file.st = "json" =>
        /\ progress_file.processed <= progress_file.total
        /\ progress_file.processed =
              Len(progress_file.results)
              + Cardinality({i \in 1..progress_file.processed :
                                IsEmptyRow(progress_file.rows_data[i])})

\* C2 witness: a snapshot written after a skipped row and an analysed one.
LedgerCountsRowsWitness ==
    /\ progress_file.st = "json"
    /\ progress_file.processed = 2
    /\ Len(progress_file.results) = 1

\* C3: a process killed strictly between the persist of record k and the
\* dispatch of record k+1 leaves a progress file with processed = k and no
\* result of record k+1 (or of any later record).
AtMostOneLoss ==
    [][(pc = "loop" /\ idx >= 1 /\ pc' = "idle" /\ exc' = "killed") =>
          /\ progress_file'.st = "json"
          /\ progress_file'.processed = idx
          /\ \A j \in 1..Len(progress_file'.results) :
                progress_file'.results[j].seq <= idx]_vars

\* C3 witness: the process stands between the persist of record 1 and the
\* dispatch of record 2, with one result persisted.
AtMostOneLossWitness ==
    /\ pc = "loop" /\ mode = "fresh"
    /\ idx = 1 /\ idx < Len(rows)
    /\ progress_file.st = "json" /\ Len(progress_file.results) = 1

\* C4: at every instant of the batch pass outside a write of the progress
\* file, up to the writing of the result file, the results of all the
\* records completed so far can be read back from the disk.
CrashDurability ==
    (mode # "triage" /\ pc \in {"loop", "call", "return", "returned"}) =>
        results = Recoverable

\* C5: with a stub generator, a batch that was killed and resumed from the
\* progress file returns the results of the batch that nothing stops.
ResumeIdempotence ==
    pc = "returned" => results = Uninterrupted(rows, 1, << >>)

\* C5 witness: a resumed batch returns at least two results, one of which it
\* took from the progress file.
ResumeIdempotenceWitness ==
    /\ pc = "returned" /\ mode = "resume"
    /\ Len(results) >= 2
    /\ unfinished # << >>
    /\ Len(unfinished[1].results) \in 1..(Len(results) - 1)

\* C6: the progress file is replaced atomically: whenever a save is under
\* way the file on disk is a complete snapshot (the previous one or the new
\* one), never absent, truncated or unparseable.
AtomicSave ==
    pc = "write" => load_progress(progress_file) # << >>

PlaceholderContent ==
    (pc = "return" /\ exhausted) =>
        /\ ret[1].type = "dict"
        /\ ret[1].Security_Status = SENTINEL
        /\ ret[1].User_Query = Prompt.question
        /\ ret[1].AI_Response = Prompt.answer
        /\ ret[1].Platform = Prompt.platform
        /\ error_msg \in {"api_error", "cannot_extract_json", "missing_fields", "type_error"}
        /\ ret[1].Risk_Diagnosis = <<"parse_error", max_retries, error_msg>>

\* C8 witness: in the batch pass, the last attempt on row 1 failed.
PlaceholderContentWitness ==
    /\ pc = "return" /\ exhausted /\ mode = "fresh" /\ idx = 0
    /\ ret[1].User_Query = <<"Q", 1>>

\* C9: a re-analysis pass leaves every entry that is not a placeholder as it
\* is in the result file, keeps the length and the order of the collection,
\* and calls the generator only for placeholders.
TriageFrame ==
    InTriage =>
        /\ Len(results) = Len(result_file.results)
        /\ \A i \in 1..Len(results) :
              /\ results[i].seq = result_file.results[i].seq
              /\ result_file.results[i].Security_Status # SENTINEL
                    => results[i] = result_file.results[i]
        /\ pc \in {"call", "return"} =>
              result_file.results[failed_indices[fpos]].Security_Status = SENTINEL

\* C9 witness: a pass over two entries has replaced the placeholder and is
\* over, the other entry being no placeholder.
TriageFrameWitness ==
    /\ InTriage /\ pc = "tloop" /\ fpos > Len(failed_indices)
    /\ Len(results) = 2
    /\ results # result_file.results
    /\ \E i \in 1..2 : result_file.results[i].Security_Status # SENTINEL

\* C10: a re-analysis pass replaces each placeholder at its index, keeping
\* its identifier, and an entry that is still a placeholder embeds the
\* question and the answer the placeholder embedded before the pass.
TriageReplacement ==
    InTriage =>
        \A i \in 1..Len(results) :
            /\ results[i].seq = result_file.results[i].seq
            /\ results[i].Security_Status = SENTINEL =>
                  /\ results[i].User_Query = result_file.results[i].User_Query
                  /\ results[i].AI_Response = result_file.results[i].AI_Response

\* The failures of one attempt, as str(e).
AttemptErrors == {"api_error", "cannot_extract_json", "type_error", "missing_fields"}

\* The batch pass is inside analyze_csv_data's loop.
InBatchLoop == mode # "triage" /\ pc \in {"loop", "call", "return", "write"}

\* C11: a re-analysis asked for on a result file in which a previous pass
\* left no placeholder does not enter the loop: no generator call is made
\* and the file stays as it is.
TriageIdempotence ==
    [][(/\ pc # "idle"
        /\ triaged
        /\ result_file.st = "json"
        /\ \A i \in 1..Len(result_file.results) :
              ~IsPlaceholder(result_file.results[i]))
       => (/\ pc' \notin {"tloop", "call", "return"}
           /\ result_file' = result_file)]_vars

\* C11 witness: a process stands at the menu over a result file of two
\* entries that a re-analysis pass has rewritten, leaving no placeholder.
TriageIdempotenceWitness ==
    /\ pc = "menu"
    /\ triaged
    /\ result_file.st = "json"
    /\ Len(result_file.results) = 2
    /\ \A i \in 1..2 : ~IsPlaceholder(result_file.results[i])

\* C12: a result has the sentinel status if and only if it is the
\* placeholder built after the last failed attempt; a generator answer
\* accepted by the validation never has it.
SentinelExclusivity ==
    (pc = "return" /\ ret[1].type = "dict") =>
        (ret[1].Security_Status = SENTINEL <=> exhausted)

\* C13: analyze_single_response returns a generator answer as a result only
\* if every required field is present in it with a non-empty value.
Validation ==
    (pc = "return" /\ ~exhausted /\ ret[1].type = "dict") =>
        /\ HasRequiredFields(ret[1])
        /\ ret[1].Platform # EmptyStr
        /\ ret[1].User_Query # EmptyStr
        /\ ret[1].AI_Response # EmptyStr
        /\ ret[1].Security_Status # ""

\* C14: the generator is called again for a record only after a failed
\* generator call; a failure of the output recovery or of the validation
\* of a returned text is never followed by another call.
SingleRetryLayer ==
    (pc = "call" /\ attempt > 0) => error_msg = "api_error"

\* C14, amended: whatever failed in an attempt (the generator call, the
\* output recovery or the validation), the generator is called again as
\* long as fewer than max_retries attempts were made, and the placeholder
\* is returned only when the max_retries-th attempt has failed.
RetryOnAnyFailure ==
    [][pc = "call" =>
          \/ pc' = "idle"
          \/ pc' = "return" /\ ~exhausted'
          \/ /\ pc' = "return" /\ exhausted'
             /\ attempt = max_retries - 1
             /\ error_msg' \in AttemptErrors
          \/ /\ pc' = "call"
             /\ attempt < max_retries - 1
             /\ attempt' = attempt + 1
             /\ error_msg' \in AttemptErrors]_vars

\* C14 witness: a third attempt is about to be made after a validation
\* failure of the text the second call returned.
RetryOnAnyFailureWitness ==
    pc = "call" /\ attempt = 2 /\ error_msg = "missing_fields"

\* C15: for one record the generator is called at most max_retries times,
\* no call follows an accepted attempt, and when every attempt has failed
\* the placeholder carries the error of the last attempt (here the
\* max_retries-th answer of the stub generator).
BoundedRetry ==
    [][/\ pc' = "call" => attempt' < max_retries
       /\ (pc = "call" /\ pc' = "call") => attempt' = attempt + 1
       /\ pc = "return" => pc' # "call"
       /\ (pc = "call" /\ pc' = "return" /\ exhausted') =>
             LET last == TryOnce(GenOutcome(gen[Prompt.question[2]][max_retries], Prompt))
             IN /\ attempt + 1 = max_retries
                /\ ~last.ok
                /\ ret'[1].Risk_Diagnosis = <<"parse_error", max_retries, last.error>>]_vars

\* C15 witness: the three attempts on a record failed in three different
\* ways, the last one by a failed generator call.
BoundedRetryWitness ==
    /\ pc = "return" /\ exhausted
    /\ gen[Prompt.question[2]] = <<"garbage", "missing", "raise">>
    /\ ret[1].Risk_Diagnosis = <<"parse_error", max_retries, "api_error">>

\* C16: while record idx + 1 is considered or with the processor, the
\* outcomes of all the records before it are in the progress file: the file
\* is complete, its processed is idx and its results are the results held.
SequentialPersistence ==
    (mode # "triage" /\ pc \in {"loop", "call", "return"} /\ idx > 0) =>
        /\ progress_file.st = "json"
        /\ progress_file.processed = idx
        /\ progress_file.results = results

\* C16 witness: record 2 is with the processor, the result of record 1
\* being persisted.
SequentialPersistenceWitness ==
    /\ mode = "fresh" /\ pc = "call" /\ idx = 1
    /\ Len(results) = 1 /\ progress_file.results = results

\* C17: a resumed batch starts at the processed of the progress file, over
\* the rows of that file; a batch considers its rows one index after the
\* other, each once (an index is left only by the persist of its outcome),
\* and returns only past the last row.
ProcessingOrder ==
    [][/\ (pc = "menu" /\ pc' = "loop") =>
             /\ idx' = progress_file.processed
             /\ rows' = progress_file.rows_data
       /\ (pc = "select" /\ pc' = "loop") => idx' = 0
       /\ (InBatchLoop /\ pc' # "idle") =>
             /\ rows' = rows
             /\ idx' = IF pc = "write" THEN idx + 1 ELSE idx
             /\ pc = "loop" => IF idx < Len(rows) THEN pc' \in {"call", "write"}
                                                  ELSE pc' = "returned"
             /\ pc = "call" => pc' \in {"call", "return"}
             /\ pc = "return" => pc' = "write"
             /\ pc = "write" => pc' = "loop"]_vars

\* C17 witness: a batch over two rows resumed at index 1 has returned.
ProcessingOrderWitness ==
    /\ pc = "returned" /\ mode = "resume"
    /\ unfinished # << >> /\ unfinished[1].processed = 1
    /\ Len(rows) = 2 /\ idx = 2

\* C18: inside analyze_csv_data the progress file is removed by one step
\* only, the one that leaves the loop past the last row and returns; a
\* batch that ends by a kill, an interrupt or an error removes nothing, and
\* no progress file exists once the batch has returned.
LedgerClearing ==
    [][/\ (InBatchLoop /\ progress_file.st # "absent" /\ progress_file'.st = "absent")
             => (pc = "loop" /\ idx = Len(rows) /\ pc' = "returned")
       /\ (pc = "loop" /\ pc' = "returned")
             => (idx = Len(rows) /\ progress_file'.st = "absent")
       /\ pc = "returned"
             => (progress_file.st = "absent" /\ progress_file' = progress_file)
       /\ (InBatchLoop /\ pc' = "idle") => progress_file' = progress_file]_vars

\* C18 witness: a resumed batch has returned and its progress file is gone.
LedgerClearingWitness ==
    /\ pc = "returned" /\ mode = "resume"
    /\ unfinished # << >> /\ unfinished[1].st = "json"
    /\ progress_file.st = "absent"

\* C19: a KeyboardInterrupt or an error that ends the batch during the
\* iteration leaves the progress file as it is, and that file is the last
\* snapshot persisted (processed = the index reached), which loads.
Interruption ==
    [][(InBatchLoop /\ pc' = "idle" /\ exc' \in {"KeyboardInterrupt", "TypeError"}) =>
          /\ progress_file' = progress_file
          /\ idx > 0 => /\ load_progress(progress_file') # << >>
                        /\ progress_file'.processed = idx]_vars

\* C20: check_unfinished_task reports the progress file as unfinished
\* exactly when it loads, the source exists and processed < total; a file
\* that loads and fails one of the two is removed, and a file that does
\* not load is left as it is.
Resumability ==
    [][(pc = "idle" /\ pc' = "menu") =>
          LET loads     == progress_file.st = "json"
              resumable == /\ loads
                           /\ csv_exists
                           /\ progress_file.processed < progress_file.total
          IN /\ unfinished' # << >> <=> resumable
             /\ resumable => (unfinished' = <<progress_file>> /\ progress_file' = progress_file)
             /\ (loads /\ ~resumable) => progress_file'.st = "absent"
             /\ ~loads => progress_file' = progress_file]_vars

\* C20 witness: a progress file of a batch stopped after its first row has
\* been reported as unfinished.
ResumabilityWitness ==
    /\ pc = "menu" /\ csv_exists
    /\ unfinished = <<progress_file>>
    /\ progress_file.processed = 1 /\ progress_file.total = 2

\* The strategies a text calls for, in the order of the function, each with
\* what its candidate parses to.
ChainOrder(t) ==
    <<[name |-> "direct", slot |-> t.full]>>
    \o (IF t.tagged THEN <<[name |-> "tagged", slot |-> t.taggedBody]>> ELSE << >>)
    \o (IF t.fenced THEN <<[name |-> "fenced", slot |-> t.fencedBody]>> ELSE << >>)
    \o (IF t.braces THEN <<[name |-> "braces", slot |-> t.braceBody]>> ELSE << >>)
    \o <<[name |-> "repair direct", slot |-> t.repFull]>>
    \o (IF t.tagged THEN <<[name |-> "repair tagged", slot |-> t.repTagged]>> ELSE << >>)
    \o (IF t.fenced THEN <<[name |-> "repair fenced", slot |-> t.repFenced]>> ELSE << >>)
    \o (IF t.braces THEN <<[name |-> "repair braces", slot |-> t.repBrace]>> ELSE << >>)

\* C21: an error that ends the run (a failed write of the progress file, a
\* source that is gone when the run is to be resumed) leaves the progress
\* file as the last complete snapshot: it is neither removed nor emptied.
FatalErrorsKeepLedger ==
    [][/\ (InBatchLoop /\ pc' = "idle" /\ exc' = "OSError") =>
             /\ progress_file' = progress_file
             /\ idx > 0 => /\ load_progress(progress_file') # << >>
                           /\ progress_file'.processed = idx
       /\ (pc = "idle" /\ pc' = "menu" /\ progress_file.st = "json" /\ ~csv_exists) =>
             progress_file' = progress_file]_vars

\* C22: without interrupt, the strategies are attempted in the order direct
\* parse, tagged block, fenced block, brace slice, then the repair of the
\* same candidates in that order; each is attempted only after every
\* earlier one has failed, the value returned is that of the first one
\* that succeeds, and the function raises only when all have failed.
RecoveryChainOrder ==
    (stage # "off" /\ ~signalled) =>
        LET order == ChainOrder(text)
            n     == Len(tried)
        IN /\ n <= Len(order)
           /\ \A i \in 1..n : tried[i] = order[i].name
           /\ \A i \in 1..(n - 1) : order[i].slot = NoParse
           /\ stage = "returned" =>
                 /\ n >= 1
                 /\ order[n].slot # NoParse
                 /\ parsed = order[n].slot
                 /\ parsed = extract_and_parse_json(text)
           /\ stage # "returned" =>
                 /\ parsed = << >>
                 /\ n >= 1 => order[n].slot = NoParse
           /\ stage = "raised" =>
                 /\ n = Len(order)
                 /\ extract_and_parse_json(text) = NoParse

\* C22 witness: every strategy was attempted and the last one, the repair
\* of the brace slice, returned its value.
RecoveryChainOrderWitness ==
    /\ stage = "returned" /\ ~signalled
    /\ tried = <<"direct", "tagged", "fenced", "braces", "repair direct",
                 "repair tagged", "repair fenced", "repair braces">>
    /\ parsed = <<SlotValue(8)>>

\* C23: extract_and_parse_json ends by returning a mapping or by raising
\* ValueError, whatever the text.
RecoveryBoundary ==
    /\ stage = "returned" => parsed[1].type = "dict"
    /\ (stage \notin {"off", "direct", "tagged", "fenced", "braces", "repair", "returned"}
          /\ ~signalled) => stage = "raised"

\* C24: without interrupt, a text with no fence whose direct parse fails
\* and whose brace slice parses is answered by the brace slice, no repair
\* being attempted; a text with no fence and no brace slice whose direct
\* parse fails and whose repair parses is answered by the repair.
BraceRecovery ==
    (~signalled /\ stage \in {"returned", "raised"} /\ text.full = NoParse /\ ~text.fenced) =>
        /\ (text.braces /\ text.braceBody # NoParse) =>
              /\ stage = "returned"
              /\ tried = <<"direct", "braces">>
              /\ parsed = text.braceBody
        /\ (~text.braces /\ text.repFull # NoParse) =>
              /\ stage = "returned"
              /\ tried = <<"direct", "repair direct">>
              /\ parsed = text.repFull

\* C24 witness: an object between two stretches of noise was returned by
\* the brace slice.
BraceRecoveryWitness ==
    /\ stage = "returned" /\ ~signalled
    /\ text = GenOutcome("noise", RowPrompt(Row(1, "full")))
    /\ tried = <<"direct", "braces">>
    /\ parsed = <<OkValue(RowPrompt(Row(1, "full")))>>

\* C29: a KeyboardInterrupt raised while extract_and_parse_json runs leaves
\* the function: no later strategy runs, no value is returned and no
\* ValueError takes its place.
CancellationPropagates ==
    signalled => stage = "interrupted"

\* C25: the generator is never called for a row whose question or answer is
\* empty, and once such a row is passed the progress file is complete, with
\* processed counting the row and the results as they were.
SkipSemantics ==
    mode # "triage" =>
        /\ pc \in {"call", "return"} =>
              (rows[idx + 1].question # EmptyStr /\ rows[idx + 1].answer # EmptyStr)
        /\ (pc = "loop" /\ idx > 0
              /\ (rows[idx].question = EmptyStr \/ rows[idx].answer = EmptyStr)) =>
              /\ progress_file.st = "json"
              /\ progress_file.processed = idx
              /\ progress_file.results = results

\* C25 witness: the first of two rows had no question; the batch is about to
\* consider the second one, with processed = 1 persisted and no result.
SkipSemanticsWitness ==
    /\ pc = "loop" /\ mode = "fresh" /\ idx = 1 /\ Len(rows) = 2
    /\ rows[1].question = EmptyStr
    /\ progress_file.st = "json" /\ progress_file.processed = 1
    /\ results = << >>

\* C26: a resumed batch works on the rows of the progress file it was
\* started from, whatever the source holds by then, keeps the results of
\* that file as the head of its own and starts at its processed; every
\* snapshot a batch writes holds the rows it works on and their number.
ResumeFromLedgerOnly ==
    /\ (mode = "resume" /\ pc \in {"loop", "call", "return", "write", "returned"}) =>
          LET ledger == unfinished[1]
          IN /\ rows = ledger.rows_data
             /\ idx >= ledger.processed
             /\ Len(results) >= Len(ledger.results)
             /\ SubSeq(results, 1, Len(ledger.results)) = ledger.results
    /\ (InBatchLoop /\ progress_file.st = "json") =>
          /\ progress_file.rows_data = rows
          /\ progress_file.total = Len(rows)

\* C26 witness: a resumed batch has returned although the source no longer
\* holds the rows it worked on.
ResumeFromLedgerOnlyWitness ==
    /\ pc = "returned" /\ mode = "resume"
    /\ csv # rows
    /\ Len(results) > Len(unfinished[1].results)

\* C27: every result held, persisted or saved carries the identifier and
\* the platform of the row it was produced from (row i has the identifier
\* i and the platform <<"P", i>>).
CarryThrough ==
    LET carried(rs) == \A i \in 1..Len(rs) :
                          /\ rs[i].seq \in 1..MaxRecords
                          /\ rs[i].Platform = <<"P", rs[i].seq>>
    IN /\ carried(results)
       /\ progress_file.st = "json" => carried(progress_file.results)
       /\ result_file.st = "json" => carried(result_file.results)

\* C28: no step of a re-analysis pass, from the choice of the mode to the
\* saving of the result file, and no call of analyze_single_response
\* changes the progress file.
LedgerOwnership ==
    [][(pc \in {"tloop", "call", "return"} \/ (pc = "menu" /\ pc' = "tloop"))
          => progress_file' = progress_file]_vars

\* C28 witness: a re-analysis pass has rewritten the result file while the
\* progress file of an unfinished batch is on disk.
LedgerOwnershipWitness ==
    /\ pc = "idle" /\ triaged
    /\ progress_file.st = "json"
    /\ progress_file.processed < progress_file.total

\* C30: a snapshot replaces a snapshot of the same batch whose processed is
\* one less and whose results are the head of its own (with at most one
\* entry more); its processed does not exceed its total, and its total is
\* the number of the rows it holds.
LedgerProgress ==
    [][/\ (InBatchLoop /\ pc' = "write" /\ progress_file.st = "json") =>
             /\ progress_file.processed = idx
             /\ Len(results') - Len(progress_file.results) \in {0, 1}
             /\ SubSeq(results', 1, Len(progress_file.results)) = progress_file.results
       /\ (pc = "write" /\ pc' = "loop") =>
             /\ progress_file'.processed = idx + 1
             /\ progress_file'.processed <= progress_file'.total
             /\ progress_file'.total = Len(progress_file'.rows_data)
             /\ progress_file'.rows_data = rows
             /\ progress_file'.results = results]_vars

\* C30 witness: the second snapshot of a batch over two rows is on disk,
\* with two results.
LedgerProgressWitness ==
    /\ pc = "loop" /\ idx = 2
    /\ progress_file.st = "json" /\ progress_file.processed = 2
    /\ Len(progress_file.results) = 2

\* C32: a re-analysis pass persists nothing while it runs: every step of
\* the pass, an interruption included, leaves the result file as it is, so
\* the entries already replaced in memory are still placeholders on disk;
\* the file is rewritten by the one step that follows the last replacement.
TriageNotCheckpointed ==
    [][InTriage =>
          /\ \A k \in 1..Len(failed_indices) :
                IsPlaceholder(result_file.results[failed_indices[k]])
          /\ \/ result_file' = result_file
             \/ /\ pc = "tloop" /\ fpos > Len(failed_indices)
                /\ result_file' = ResultsData(results)]_vars

\* C32 witness: the first of two placeholders has been replaced by a
\* well-formed result in memory and the second is being re-analysed; an
\* interruption can strike here.
TriageNotCheckpointedWitness ==
    /\ InTriage /\ pc = "call" /\ fpos = 2
    /\ Len(failed_indices) = 2
    /\ ~IsPlaceholder(results[failed_indices[1]])
    /\ IsPlaceholder(result_file.results[failed_indices[1]])

DecliningResume ==
    [][/\ (pc = "menu" /\ unfinished # << >> /\ pc' = "select") =>
             progress_file' = NoFile
       /\ (pc = "select" /\ unfinished # << >>) =>
             /\ progress_file = NoFile
             /\ pc' = "idle" =>
                   /\ progress_file' = NoFile
                   /\ check_unfinished_task(progress_file', csv_exists').unfinished = << >>
       /\ (pc = "menu" /\ unfinished # << >> /\ pc' = "idle") =>
             progress_file' = progress_file]_vars

\* C35 witness: the user has confirmed a new analysis over an unfinished
\* batch of two rows and the selection of the source is open.
DecliningResumeWitness ==
    /\ pc = "select"
    /\ unfinished # << >>
    /\ unfinished[1].total = 2
    /\ progress_file = NoFile

\* C31: with a generator whose every call returns or raises, a batch over N
\* rows makes at most N x max_retries generator calls and leaves its loop
\* either by returning the results with the progress file cleared or by an
\* exception that ends the process; a re-analysis pass over F placeholders
\* makes at most F x max_retries calls and ends, after the last replacement
\* with the result file rewritten or else by an exception.
Termination ==
    /\ []((InBatchLoop \/ pc = "returned") => calls <= Len(rows) * max_retries)
    /\ [](InTriage => calls <= Len(failed_indices) * max_retries)
    /\ [][/\ (InBatchLoop /\ ~InBatchLoop') =>
                \/ /\ pc' = "returned" /\ progress_file' = NoFile
                   /\ results' = results /\ exc' = ""
                \/ pc' = "idle" /\ exc' # ""
          /\ (InTriage /\ ~InTriage') =>
                /\ pc' = "idle"
                /\ exc' = "" => (/\ fpos > Len(failed_indices)
                                 /\ result_file' = ResultsData(results))]_vars
    /\ InBatchLoop ~> (pc \in {"returned", "idle"})
    /\ InTriage ~> (pc = "idle")

\* C31 witness: a batch over two rows has returned after 2 x max_retries
\* generator calls, every attempt on both rows having failed.
TerminationWitness ==
    /\ pc = "returned" /\ Len(rows) = 2
    /\ calls = 2 * max_retries
    /\ \A i \in 1..2 : IsPlaceholder(results[i])

\* C34: called with max_retries = 0, analyze_single_response makes no
\* generator call and returns a mapping with the sentinel status that
\* embeds the question, the answer and the platform it was called with.
ZeroRetries ==
    retries = 0 =>
        /\ pc # "call"
        /\ calls = 0
        /\ pc = "return" =>
              /\ ret[1].type = "dict"
              /\ ret[1].Security_Status = SENTINEL
              /\ ret[1].User_Query = rows[1].question
              /\ ret[1].AI_Response = rows[1].answer
              /\ ret[1].Platform = rows[1].platform

\* C34 witness: the call with max_retries = 0 on a record with a question
\* and an answer has returned.
ZeroRetriesWitness ==
    /\ retries = 0 /\ pc = "return"
    /\ ret # << >>
    /\ rows[1].question # EmptyStr /\ rows[1].answer # EmptyStr

\* The Platform values of the items, high-risk items first.
RawLabelsOf(ci) == ci.high \o ci.warn

\* The labels that are not the empty string, as they stand in the items.
LabelsOf(ci) == SelectSeq(RawLabelsOf(ci), LAMBDA l : l # "")

\* The labels that are not blank, stripped of surrounding whitespace and
\* with every spelling of deepseek written DeepSeek.
CleanLabelsOf(ci) ==
    LET kept == SelectSeq(RawLabelsOf(ci), LAMBDA l : strip(l) # "")
    IN [i \in 1..Len(kept) |-> Normalized(strip(kept[i]))]

\* The rule over the labels L for the labels `out` the string returned joins.
DominantRule(L, out) ==
    LET names == {L[i] : i \in DOMAIN L}
        dominant == {p \in names : threshold_den * Count(L, p) > threshold_num * Len(L)}
    IN IF L = << >> THEN out = <<GENERIC>>
       ELSE IF dominant # {} THEN \E p \in dominant : out = <<p>>
       ELSE /\ Len(out) >= 2
            /\ Len(out) = (IF Cardinality(names) < 3 THEN Cardinality(names) ELSE 3)
            /\ \A i \in DOMAIN out : out[i] \in names
            /\ \A i, j \in DOMAIN out :
                  i < j => (out[i] # out[j] /\ Count(L, out[i]) >= Count(L, out[j]))
            /\ \A p \in names \ {out[i] : i \in DOMAIN out} :
                  \A i \in DOMAIN out : Count(L, p) <= Count(L, out[i])

\* C36: extract_platforms returns the most frequent label alone exactly
\* when its count is strictly more than 70% of the number of non-empty
\* labels of the critical issues, else the (at most three) most frequent
\* labels in descending frequency, and the generic label when no label is
\* non-empty; the labels being the Platform values as they stand.
DominantPlatformRule ==
    platform # << >> => DominantRule(LabelsOf(critical_issues), platform[1])

\* C36, amended: the same rule over the labels stripped of surrounding
\* whitespace, blank labels dropped and every spelling of deepseek counted
\* as DeepSeek.
DominantPlatformRuleNormalized ==
    platform # << >> => DominantRule(CleanLabelsOf(critical_issues), platform[1])

\* C36 witness: of ten labels seven are Doubao, exactly 70%: the string
\* returned joins the two labels instead of naming Doubao alone.
DominantPlatformRuleWitness ==
    /\ platform = << <<"Doubao", "Qwen">> >>
    /\ Len(critical_issues.high) = threshold_den
    /\ Count(critical_issues.high, "Doubao") = threshold_num

====
